---- MODULE Spec2Model ----
(***************************************************************************)
(* MnasNet.py: the table-driven construction of the MnasNet feature        *)
(* sequence (MnasNet.__init__), the Inverted Residual Block                *)
(* (InvertedResidual.__init__ / forward) and the forward pass              *)
(* (MnasNet.forward), as a state machine.                                  *)
(*                                                                         *)
(* width_mult is a Python float.  It is represented by its numerator over  *)
(* WidthDen, a power of two: every such multiplier and every product       *)
(* c * width_mult of the model is exactly representable in binary floating *)
(* point, so int(c * width_mult) is exactly the integer quotient below.    *)
(***************************************************************************)
EXTENDS Integers, Sequences, FiniteSets

\* ------------------------------------------------------------- bounds

\* width_mult = wm / WidthDen
WidthDen == 1024
\* the smallest multiplier of the model is 0.5
MinWidthNum == WidthDen \div 2
\* the largest numerator: 1030/1024, just above 1.0
MaxWidthNum == 1030
WidthNums == MinWidthNum..MaxWidthNum

\* input_size=224 (the default)
DefaultInputSize == 224
\* input_size ranges over the multiples of a quarter of the default size
MaxInputK == 12
InputSizes == {(DefaultInputSize \div 4) * k : k \in 1..MaxInputK}

\* forward passes modelled per network instance
MaxPasses == 2

\* ------------------------------------------------ program constants

\* n_class=1000 (the default)
n_class == 1000
\* drop_prob=0.0 (the default)
drop_prob == 0
\* num_steps=3e5 (the default)
num_steps == 300000
\* the batch dimension of the input tensor of the demo
BatchSize == 1
\* the RGB input planes of Conv_3x3(3, input_channel, 2, ...)
InputPlanes == 3
\* SepConv_3x3(input_channel, 16, ...); input_channel = 16
FirstBlockChannels == 16
\* int(32 * width_mult)
StemChannels == 32
\* int(1280 * width_mult) if width_mult > 1.0 else 1280
HeadChannels == 1280
\* assert input_size % 32 == 0
SizeDivisor == 32
\* DropBlock2D(drop_prob=drop_prob, block_size=7)
DropBlockSize == 7

\* self.interverted_residual_setting: t, c, n, s, k, dp
interverted_residual_setting ==
    << [t |-> 3, c |-> 24,  n |-> 3, s |-> 2, k |-> 3, dp |-> 0],
       [t |-> 3, c |-> 40,  n |-> 3, s |-> 2, k |-> 5, dp |-> 0],
       [t |-> 6, c |-> 80,  n |-> 3, s |-> 2, k |-> 5, dp |-> 0],
       [t |-> 6, c |-> 96,  n |-> 2, s |-> 1, k |-> 3, dp |-> drop_prob],
       [t |-> 6, c |-> 192, n |-> 4, s |-> 2, k |-> 5, dp |-> drop_prob],
       [t |-> 6, c |-> 320, n |-> 1, s |-> 1, k |-> 3, dp |-> drop_prob] >>

NumStages == Len(interverted_residual_setting)

\* ------------------------------------------------------------- layers

\* One operator of the tensor runtime, as a uniform record.
Layer(op, cin, cout, k, s, p, g) ==
    [op |-> op, cin |-> cin, cout |-> cout, k |-> k, s |-> s, p |-> p, g |-> g]

\* nn.Conv2d(cin, cout, k, s, p, groups=g, bias=False)
Conv2d(cin, cout, k, s, p, g) == Layer("Conv2d", cin, cout, k, s, p, g)

\* nn.BatchNorm2d(c)
BatchNorm2d(c) == Layer("BatchNorm2d", c, c, 0, 1, 0, 1)

\* activation(**act_params)
Activation == Layer("activation", 0, 0, 0, 1, 0, 1)

\* DropBlockScheduled(DropBlock2D(drop_prob=dp, block_size=7), start_value=0.,
\*                    stop_value=dp, nr_steps=num_steps)
\* k holds the block size, cin the start value, cout the stop value, g nr_steps.
DropBlockScheduled(dp, steps) ==
    Layer("DropBlockScheduled", 0, dp, DropBlockSize, 1, 0, steps)

\* nn.AdaptiveAvgPool2d(1)
AdaptiveAvgPool2d == Layer("AdaptiveAvgPool2d", 0, 0, 0, 1, 0, 1)

\* Conv_3x3(inp, oup, stride)
Conv_3x3(inp, oup, stride) ==
    << Conv2d(inp, oup, 3, stride, 1, 1), BatchNorm2d(oup), Activation >>

\* Conv_1x1(inp, oup)
Conv_1x1(inp, oup) ==
    << Conv2d(inp, oup, 1, 1, 0, 1), BatchNorm2d(oup), Activation >>

\* SepConv_3x3(inp, oup)
SepConv_3x3(inp, oup) ==
    << Conv2d(inp, inp, 3, 1, 1, inp), BatchNorm2d(inp), Activation,
       Conv2d(inp, oup, 1, 1, 0, 1), BatchNorm2d(oup) >>

\* --------------------------------------------- InvertedResidual.__init__

\* assert stride in [1, 2]
StrideOk(stride) == stride \in {1, 2}

\* Faulty variant: the shortcut decided by the channel counts alone.
UseResConnectNoStride(stride, inp, oup) == inp = oup

\* self.use_res_connect = self.stride == 1 and inp == oup
UseResConnect(stride, inp, oup) == stride = 1 /\ inp = oup

\* Faulty variant: the padding 1 of the 3x3 builders for every kernel.
PaddingOne(kernel) == 1

\* kernel // 2, the padding of the depthwise convolution
Padding(kernel) == kernel \div 2

\* self.conv = nn.Sequential(pw, dw, pw-linear)
BlockConv(inp, oup, stride, expand_ratio, kernel, dp, steps) ==
    << Conv2d(inp, inp * expand_ratio, 1, 1, 0, 1),
       BatchNorm2d(inp * expand_ratio),
       DropBlockScheduled(dp, steps),
       Activation,
       Conv2d(inp * expand_ratio, inp * expand_ratio, kernel, stride,
              Padding(kernel), inp * expand_ratio),
       BatchNorm2d(inp * expand_ratio),
       DropBlockScheduled(dp, steps),
       Activation,
       Conv2d(inp * expand_ratio, oup, 1, 1, 0, 1),
       BatchNorm2d(oup),
       DropBlockScheduled(dp, steps) >>

\* if self.use_res_connect: self.skip_drop = DropBlockScheduled(...)
\* (the attribute is absent otherwise: the empty sequence)
SkipDrop(use_res_connect, dp, steps) ==
    IF use_res_connect THEN << DropBlockScheduled(dp, steps) >> ELSE << >>

\* One entry of self.features.
Feature(kind, inp, oup, stride, expand_ratio, kernel, dp, res, conv, skip) ==
    [kind |-> kind, inp |-> inp, oup |-> oup, stride |-> stride,
     expand_ratio |-> expand_ratio, kernel |-> kernel, dp |-> dp,
     use_res_connect |-> res, conv |-> conv, skip_drop |-> skip]

\* InvertedResidual(inp, oup, stride, expand_ratio, kernel, drop_prob, num_steps)
InvertedResidual(inp, oup, stride, expand_ratio, kernel, dp, steps) ==
    Feature("InvertedResidual", inp, oup, stride, expand_ratio, kernel, dp,
            UseResConnect(stride, inp, oup),
            BlockConv(inp, oup, stride, expand_ratio, kernel, dp, steps),
            SkipDrop(UseResConnect(stride, inp, oup), dp, steps))

\* The framing entries of self.features, which are plain nn.Sequential chains.
Plain(kind, inp, oup, stride, conv) ==
    Feature(kind, inp, oup, stride, 0, 0, 0, FALSE, conv, << >>)

\* ------------------------------------------------------ MnasNet.__init__

\* Faulty variant: the assertion on another divisor.
InputSizeOkLoose(size) == size % 8 = 0

\* assert input_size % 32 == 0
InputSizeOk(size) == size % SizeDivisor = 0

\* Faulty variant: round(c * width_mult), ties upward, in place of int().
ScaleChannelsRound(c, wm) == (2 * c * wm + WidthDen) \div (2 * WidthDen)

\* int(c * width_mult): the product truncated toward zero
ScaleChannels(c, wm) == (c * wm) \div WidthDen

\* Faulty variant: the last channel scaled for every multiplier.
LastChannelAlwaysScaled(wm) == (HeadChannels * wm) \div WidthDen

\* self.last_channel = int(1280 * width_mult) if width_mult > 1.0 else 1280
LastChannel(wm) ==
    IF wm > WidthDen THEN ScaleChannels(HeadChannels, wm) ELSE HeadChannels

\* Faulty variant: the stage's stride handed to every block of the stage.
BlockStrideEvery(s, i) == s

\* the stride handed to the i-th block of a stage: s if i == 0, else 1
BlockStride(s, i) == IF i = 0 THEN s ELSE 1

\* Faulty variant: the running channel count left as it was.
RunningChannelStale(input_channel, output_channel) == input_channel

\* input_channel = output_channel, at the end of each iteration of the inner loop
RunningChannel(input_channel, output_channel) == output_channel

\* Faulty variant: range(n + 1), one block too many per stage.
MoreRepeatsOffByOne(i, n) == i + 1 < n + 1

\* range(n): whether the inner loop has another iteration after iteration i
MoreRepeats(i, n) == i + 1 < n

VARIABLES
    pc,            \* "new", "failed" (AssertionError), "blocks" (the loops), "done"
    input_size,    \* the argument input_size of the constructor call (0: no call yet)
    width_mult,    \* the argument width_mult, as its numerator over WidthDen
    features,      \* self.features
    input_channel, \* the local input_channel
    stage,         \* the position of the outer loop in the setting, from 1
    rep,           \* i, the position of the inner loop
    last_channel,  \* self.last_channel
    classifier,    \* self.classifier: << >>, or the nn.Linear's in and out features
    global_step,   \* the step counter of the network that the taps are to read
    passes,        \* forward passes made so far
    train_passes,  \* training-mode forward passes made so far
    y              \* the record of the last forward pass

vars == << pc, input_size, width_mult, features, input_channel, stage, rep,
           last_channel, classifier, global_step, passes, train_passes, y >>

NoPass == [ran |-> FALSE, training |-> FALSE, ok |-> FALSE, sizes |-> << >>,
           chans |-> << >>, terms |-> << >>, rows |-> 0, logits |-> 0,
           taps |-> 0, seen |-> {}]

Init ==
    /\ pc = "new"
    /\ input_size = 0
    /\ width_mult = 0
    /\ features = << >>
    /\ input_channel = 0
    /\ stage = 0
    /\ rep = 0
    /\ last_channel = 0
    /\ classifier = << >>
    /\ global_step = 0
    /\ passes = 0
    /\ train_passes = 0
    /\ y = NoPass

\* MnasNet(input_size=size, width_mult=wm/WidthDen) with size % 32 != 0: the
\* assertion of line 109 raises before self.features is assigned.
ConstructFail ==
    /\ pc = "new"
    /\ \E size \in InputSizes, wm \in WidthNums :
         /\ ~InputSizeOk(size)
         /\ input_size' = size
         /\ width_mult' = wm
    /\ pc' = "failed"
    /\ UNCHANGED << features, input_channel, stage, rep, last_channel,
                    classifier, global_step, passes, train_passes, y >>

\* MnasNet(input_size=size, width_mult=wm/WidthDen) up to the loops: the
\* assertion passes, last_channel is set, the two framing entries are built.
ConstructStart ==
    /\ pc = "new"
    /\ \E size \in InputSizes, wm \in WidthNums :
         /\ InputSizeOk(size)
         /\ input_size' = size
         /\ width_mult' = wm
         /\ last_channel' = LastChannel(wm)
         /\ features' =
              << Plain("Conv_3x3", InputPlanes, ScaleChannels(StemChannels, wm), 2,
                       Conv_3x3(InputPlanes, ScaleChannels(StemChannels, wm), 2)),
                 Plain("SepConv_3x3", ScaleChannels(StemChannels, wm),
                       FirstBlockChannels, 1,
                       SepConv_3x3(ScaleChannels(StemChannels, wm),
                                   FirstBlockChannels)) >>
    /\ input_channel' = FirstBlockChannels
    /\ stage' = 1
    /\ rep' = 0
    /\ pc' = "blocks"
    /\ UNCHANGED << classifier, global_step, passes, train_passes, y >>

\* One iteration of the inner loop: append one InvertedResidual.
AppendBlock ==
    /\ pc = "blocks"
    /\ stage <= NumStages
    /\ LET st == interverted_residual_setting[stage]
           output_channel == ScaleChannels(st.c, width_mult)
           stride == BlockStride(st.s, rep)
       IN /\ StrideOk(stride)
          /\ features' = Append(features,
                 InvertedResidual(input_channel, output_channel, stride,
                                  st.t, st.k, st.dp, num_steps))
          /\ input_channel' = RunningChannel(input_channel, output_channel)
          /\ IF MoreRepeats(rep, st.n)
                THEN stage' = stage /\ rep' = rep + 1
                ELSE stage' = stage + 1 /\ rep' = 0
    /\ UNCHANGED << pc, input_size, width_mult, last_channel, classifier,
                    global_step, passes, train_passes, y >>

\* After the loops: the last layers and the classifier.
Finish ==
    /\ pc = "blocks"
    /\ stage > NumStages
    /\ features' = features \o
          << Plain("Conv_1x1", input_channel, last_channel, 1,
                   Conv_1x1(input_channel, last_channel)),
             Plain("AdaptiveAvgPool2d", 0, 0, 1, << AdaptiveAvgPool2d >>) >>
    /\ classifier' = << last_channel, n_class >>
    /\ pc' = "done"
    /\ UNCHANGED << input_size, width_mult, input_channel, stage, rep,
                    last_channel, global_step, passes, train_passes, y >>

\* ------------------------------------------------------------ forward

\* A feature map between two operators: whether the runtime accepted every
\* operator so far, its channels, its (square) spatial size, and the operators
\* applied since the enclosing module's input "x", in postfix order.
Tensor(ok, c, h, term) == [ok |-> ok, c |-> c, h |-> h, term |-> term]

\* The spatial size after nn.Conv2d(kernel k, stride s, padding p)
ConvOut(h, k, s, p) == (h + 2 * p - k) \div s + 1

\* One operator applied to x.  A convolution or normalization over another
\* channel count than x has is the runtime's shape mismatch.
ApplyLayer(l, x) ==
    CASE l.op = "Conv2d" ->
           Tensor(x.ok /\ x.c = l.cin /\ x.h + 2 * l.p >= l.k,
                  l.cout, ConvOut(x.h, l.k, l.s, l.p), Append(x.term, l.op))
      [] l.op = "BatchNorm2d" ->
           Tensor(x.ok /\ x.c = l.cin, x.c, x.h, Append(x.term, l.op))
      [] l.op = "AdaptiveAvgPool2d" ->
           Tensor(x.ok, x.c, 1, Append(x.term, l.op))
      [] OTHER ->
           Tensor(x.ok, x.c, x.h, Append(x.term, l.op))

\* nn.Sequential: the operators applied left to right; an operator the
\* runtime rejects raises, and the rest of the chain is not applied.
RECURSIVE Sequential(_, _)
Sequential(layers, x) ==
    IF layers = << >> THEN x
    ELSE LET nx == ApplyLayer(Head(layers), x)
         IN IF ~nx.ok THEN nx ELSE Sequential(Tail(layers), nx)

\* x + self.conv(x)
Add(x, b) ==
    Tensor(x.ok /\ b.ok /\ x.c = b.c /\ x.h = b.h, x.c, x.h,
           x.term \o b.term \o << "add" >>)

\* Faulty variant: the tap of the shortcut applied to the branch, before the addition.
InvertedResidualForwardBranchDrop(f, x) ==
    IF f.use_res_connect
       THEN Add(x, Sequential(f.skip_drop, Sequential(f.conv, x)))
       ELSE Sequential(f.conv, x)

\* InvertedResidual.forward
InvertedResidualForward(f, x) ==
    IF f.use_res_connect
       THEN Sequential(f.skip_drop, Add(x, Sequential(f.conv, x)))
       ELSE Sequential(f.conv, x)

\* One entry of self.features applied to x, whose term starts anew at "x".
FeatureForward(f, x) ==
    LET xin == Tensor(x.ok, x.c, x.h, << "x" >>)
    IN IF f.kind = "InvertedResidual"
          THEN InvertedResidualForward(f, xin)
          ELSE Sequential(f.conv, xin)

\* self.features(x): the feature maps after each entry, in order.  An entry
\* that raises ends the pass, and the trace ends with its rejected map.
RECURSIVE RunFeatures(_, _, _)
RunFeatures(fs, x, trace) ==
    IF fs = << >> THEN trace
    ELSE LET nx == FeatureForward(Head(fs), x)
         IN IF ~nx.ok THEN Append(trace, nx)
            ELSE RunFeatures(Tail(fs), nx, Append(trace, nx))

\* The DropBlockScheduled instances one entry of self.features invokes
Taps(f) ==
    Cardinality({i \in DOMAIN f.conv : f.conv[i].op = "DropBlockScheduled"})
      + Len(f.skip_drop)

RECURSIVE TapsUpTo(_, _)
TapsUpTo(fs, i) == IF i = 0 THEN 0 ELSE Taps(fs[i]) + TapsUpTo(fs, i - 1)

\* MnasNet.forward on an image batch of size x size pixels: self.features,
\* x.view(-1, self.last_channel), self.classifier.  counter is the value of
\* the network's step counter while the pass runs: the pass assigns to no
\* counter, so every tap of the pass is invoked under this one value.
MnasNetForward(fs, last, cls, size, training, counter) ==
    LET x0 == Tensor(TRUE, InputPlanes, size, << "x" >>)
        after == RunFeatures(fs, x0, << >>)
        out == after[Len(after)]
        total == BatchSize * out.c * out.h * out.h
        viewOk == out.ok /\ total % last = 0
        rows == total \div last
    IN [ran |-> TRUE,
        training |-> training,
        ok |-> viewOk /\ cls[1] = last,
        sizes |-> [i \in 1..Len(after) |-> after[i].h],
        chans |-> [i \in 1..Len(after) |-> after[i].c],
        terms |-> [i \in 1..Len(after) |-> after[i].term],
        rows |-> rows,
        logits |-> cls[2],
        taps |-> TapsUpTo(fs, Len(fs)),
        seen |-> IF TapsUpTo(fs, Len(fs)) > 0 THEN {counter} ELSE {}]

\* net(x) on an image of the constructor's input_size, in training or in
\* evaluation mode (the module's inherited training flag).
Forward ==
    /\ pc = "done"
    /\ passes < MaxPasses
    /\ \E training \in BOOLEAN :
         /\ y' = MnasNetForward(features, last_channel, classifier, input_size,
                                training, global_step)
         /\ train_passes' = train_passes + (IF training THEN 1 ELSE 0)
    /\ passes' = passes + 1
    /\ UNCHANGED << pc, input_size, width_mult, features, input_channel, stage,
                    rep, last_channel, classifier, global_step >>

Next ==
    \/ ConstructFail
    \/ ConstructStart
    \/ AppendBlock
    \/ Finish
    \/ Forward

Spec == Init /\ [][Next]_vars

\* ------------------------------------------------- the stage table, read
\* as the expected layout of the generated sequence

\* The Inverted Residual Blocks generated for the stages before stage s + 1
RECURSIVE BlocksThrough(_)
BlocksThrough(s) ==
    IF s = 0 THEN 0 ELSE interverted_residual_setting[s].n + BlocksThrough(s - 1)

\* The stage that produces the b-th generated block, and its place in the stage
StageOf(b) ==
    CHOOSE s \in 1..NumStages : BlocksThrough(s - 1) < b /\ b <= BlocksThrough(s)
RepOf(b) == b - BlocksThrough(StageOf(b) - 1) - 1

\* The positions in self.features that hold Inverted Residual Blocks; the b-th
\* generated block sits at position b + 2, after the two framing blocks.
BlockPositions == {j \in DOMAIN features : features[j].kind = "InvertedResidual"}
BlockNo(j) == j - 2

\* q is the quotient of num by den truncated toward zero (num, den positive)
IsTruncation(q, num, den) == den * q <= num /\ num < den * (q + 1)

\* q is an integer nearest to num / den: what any round-half rule returns
IsNearest(q, num, den) ==
    /\ 2 * (den * q - num) <= den
    /\ 2 * (num - den * q) <= den

Shortcuts == {j \in BlockPositions : features[j].use_res_connect}

\* ----------------------------------------------------------------- C1

\* C1: the first generated block has input_channels 16 whatever the width
\* multiplier; the input_channels of each next block is the output_channels of
\* the block before it, which is the scaled output_channels of its stage.
C1_ChannelPropagation ==
    \A j \in BlockPositions :
       /\ BlockNo(j) = 1 => features[j].inp = 16
       /\ IsTruncation(features[j].oup,
                       interverted_residual_setting[StageOf(BlockNo(j))].c * width_mult,
                       WidthDen)
       /\ (j + 1) \in BlockPositions => features[j + 1].inp = features[j].oup

C1_Witness ==
    /\ pc = "done"
    /\ width_mult = 768
    /\ features[3].inp = 16 /\ features[3].oup = 18
    /\ features[4].inp = 18
    /\ features[6].inp = 18 /\ features[6].oup = 30

\* ----------------------------------------------------------------- C2

C2_ShortcutRule ==
    \A j \in BlockPositions :
       /\ features[j].use_res_connect
            <=> (features[j].stride = 1 /\ features[j].inp = features[j].oup)
       /\ features[j].skip_drop # << >> <=> features[j].use_res_connect

C2_Fixed ==
    \A j \in DOMAIN features :
       /\ j \in DOMAIN features'
       /\ features'[j] = features[j]

\* C2: use_shortcut is true iff stride == 1 and input_channels ==
\* output_channels, tap D (skip_drop) exists exactly when it is true, and no
\* step after a block's construction changes the block.
C2_ShortcutIffStrideOneAndEqual == [] C2_ShortcutRule /\ [][C2_Fixed]_vars

\* all four combinations of stride and equal/unequal channels, after a pass
C2_Witness ==
    /\ y.ran
    /\ \E j \in BlockPositions :
          features[j].stride = 2 /\ features[j].inp = features[j].oup
             /\ ~features[j].use_res_connect
    /\ \E j \in BlockPositions :
          features[j].stride = 2 /\ features[j].inp # features[j].oup
             /\ ~features[j].use_res_connect
    /\ \E j \in BlockPositions :
          features[j].stride = 1 /\ features[j].inp = features[j].oup
             /\ features[j].use_res_connect
    /\ \E j \in BlockPositions :
          features[j].stride = 1 /\ features[j].inp # features[j].oup
             /\ ~features[j].use_res_connect

\* ----------------------------------------------------------------- C3

\* C3: only the first block generated for a stage uses the stage's configured
\* stride; every later block of the stage uses stride 1.
C3_StrideOnlyOnFirstRepeat ==
    \A j \in BlockPositions :
       features[j].stride =
          IF RepOf(BlockNo(j)) = 0
             THEN interverted_residual_setting[StageOf(BlockNo(j))].s
             ELSE 1

C3_Witness ==
    /\ pc = "done"
    /\ features[3].stride = 2 /\ features[4].stride = 1 /\ features[5].stride = 1
    /\ features[12].stride = 1 /\ features[13].stride = 1
    /\ features[18].stride = 1

\* ----------------------------------------------------------------- C4

\* C4: the network's step counter is incremented exactly once per
\* training-mode forward pass, before any tap of that pass reads it, every tap
\* of a pass observes the same value, and the counter never decreases: after
\* any number of passes the counter equals the number of training-mode passes,
\* and the taps of a training-mode pass all saw that pass's number.
C4_StepCounterPerTrainingPass ==
    /\ global_step = train_passes
    /\ (y.ran /\ y.training /\ y.taps > 0) => y.seen = {train_passes}

\* ----------------------------------------------------------------- C5

\* The operators of self.conv in order: expand-conv, norm, tap A, activation,
\* depthwise-conv, norm, tap B, activation, project-conv, norm, tap C.
ChainOps ==
    << "Conv2d", "BatchNorm2d", "DropBlockScheduled", "activation",
       "Conv2d", "BatchNorm2d", "DropBlockScheduled", "activation",
       "Conv2d", "BatchNorm2d", "DropBlockScheduled" >>

\* C5: a block with a shortcut returns tap D applied to the sum of its input
\* and the chain applied to its input; a block without one returns the chain
\* applied to its input, with no addition and no tap D.  The chain is
\* expand (1x1 to inp * t), depthwise (kernel, stride, padding kernel // 2,
\* one group per channel) and project (1x1 to oup), in the order of ChainOps.
C5_ForwardShape ==
    (y.ran /\ y.ok) =>
       \A j \in BlockPositions :
          LET f == features[j]
              e == f.inp * f.expand_ratio
          IN /\ y.terms[j] =
                  IF f.use_res_connect
                     THEN << "x", "x" >> \o ChainOps \o << "add", "DropBlockScheduled" >>
                     ELSE << "x" >> \o ChainOps
             /\ [i \in DOMAIN f.conv |-> f.conv[i].op] = ChainOps
             /\ f.conv[1].cin = f.inp /\ f.conv[1].cout = e /\ f.conv[1].k = 1
             /\ f.conv[5].cin = e /\ f.conv[5].cout = e /\ f.conv[5].g = e
             /\ f.conv[5].k = f.kernel /\ f.conv[5].s = f.stride
             /\ f.conv[5].p = f.kernel \div 2
             /\ f.conv[9].cin = e /\ f.conv[9].cout = f.oup /\ f.conv[9].k = 1

C5_Witness ==
    /\ y.ran /\ y.ok
    /\ features[3].use_res_connect = FALSE
    /\ y.terms[3] = << "x" >> \o ChainOps
    /\ features[4].use_res_connect = TRUE
    /\ y.terms[4][Len(y.terms[4]) - 1] = "add"
    /\ y.terms[4][Len(y.terms[4])] = "DropBlockScheduled"

\* ----------------------------------------------------------------- C6

\* C6 as stated: every scaled channel count, and the initial channel width,
\* is the product with the width multiplier rounded to a nearest integer.
C6_RoundedChannels ==
    /\ \A j \in BlockPositions :
          IsNearest(features[j].oup,
                    interverted_residual_setting[StageOf(BlockNo(j))].c * width_mult,
                    WidthDen)
    /\ features # << >> => IsNearest(features[1].oup, 32 * width_mult, WidthDen)

\* C6 amended: every scaled channel count is int(output_channels *
\* width_mult), the product truncated toward zero, and the initial channel
\* width is int(32 * width_mult); width_mult = 0.5 and output_channels = 24
\* give 12.
C6_TruncatedChannels ==
    /\ \A j \in BlockPositions :
          IsTruncation(features[j].oup,
                       interverted_residual_setting[StageOf(BlockNo(j))].c * width_mult,
                       WidthDen)
    /\ features # << >> => IsTruncation(features[1].oup, 32 * width_mult, WidthDen)
    /\ (2 * width_mult = WidthDen /\ 3 \in BlockPositions) => features[3].oup = 12

\* width_mult = 540/1024: 24 * width_mult = 12.66 is scaled to 12, not 13
C6_Witness ==
    /\ pc = "done"
    /\ width_mult = 540
    /\ features[3].oup = 12
    /\ features[1].oup = 16

\* ----------------------------------------------------------------- C7

\* C7: construction fails with the assertion, with no framing block, no
\* Inverted Residual Block and no classifier built and nothing further
\* happening, whenever input_size is not divisible by 32; for every
\* input_size divisible by 32 the check passes.
C7_FailFastOnInputSize ==
    /\ pc = "failed" =>
          /\ input_size % 32 # 0
          /\ features = << >> /\ classifier = << >> /\ last_channel = 0
          /\ ~ENABLED Next
    /\ pc \in {"blocks", "done"} => input_size % 32 = 0

C7_Witness ==
    /\ pc = "failed"
    /\ input_size = 280
    /\ features = << >>

\* ----------------------------------------------------------------- C8

\* C8: on an input of input_size pixels, input_size divisible by 32, framing
\* block 1 halves the size, every block with stride 2 halves it exactly, every
\* other entry before the pooling keeps it, and the size before the pooling
\* is input_size / 32: 7 at input_size = 224.
C8_DownsampleBy32 ==
    (y.ran /\ input_size % 32 = 0) =>
       /\ y.ok
       /\ Len(y.sizes) = Len(features)
       /\ 2 * y.sizes[1] = input_size
       /\ y.sizes[2] = y.sizes[1]
       /\ \A j \in BlockPositions :
             IF features[j].stride = 2
                THEN 2 * y.sizes[j] = y.sizes[j - 1]
                ELSE y.sizes[j] = y.sizes[j - 1]
       /\ 32 * y.sizes[Len(features) - 1] = input_size
       /\ input_size = 224 => y.sizes[Len(features) - 1] = 7

C8_Witness ==
    /\ y.ran
    /\ input_size = 224
    /\ y.sizes[19] = 7
    /\ y.sizes[1] = 112 /\ y.sizes[3] = 56 /\ y.sizes[6] = 28

\* ----------------------------------------------------------------- C9

\* The final 1x1 convolution maps the running channel count after the last
\* stage to last_channel_width, the classifier's linear map takes
\* last_channel_width inputs and gives 1000 logits, and a forward pass meets
\* no shape mismatch between body and head.
C9_HeadWiring ==
    /\ pc = "done" =>
          LET n == Len(features)
          IN /\ features[n - 1].kind = "Conv_1x1"
             /\ features[n - 2].kind = "InvertedResidual"
             /\ features[n - 1].conv[1].cin = features[n - 2].oup
             /\ features[n - 1].conv[1].cout = last_channel
             /\ classifier = << last_channel, 1000 >>
    /\ y.ran =>
          /\ y.ok
          /\ y.chans[Len(features)] = last_channel
          /\ y.sizes[Len(features)] = 1
          /\ y.rows = 1
          /\ y.logits = 1000

\* C9 as stated: last_channel_width is 1280 * width_multiplier rounded to a
\* nearest integer if width_multiplier > 1, else 1280, and the head is wired
\* to it.
C9_RoundedLastChannel ==
    /\ pc \in {"blocks", "done"} =>
          IF width_mult > WidthDen
             THEN IsNearest(last_channel, 1280 * width_mult, WidthDen)
             ELSE last_channel = 1280
    /\ C9_HeadWiring

\* C9 amended: last_channel_width is int(1280 * width_multiplier), the product
\* truncated toward zero, if width_multiplier > 1, else 1280, and the head is
\* wired to it.
C9_TruncatedLastChannel ==
    /\ pc \in {"blocks", "done"} =>
          IF width_mult > WidthDen
             THEN IsTruncation(last_channel, 1280 * width_mult, WidthDen)
             ELSE last_channel = 1280
    /\ C9_HeadWiring

\* width_mult = 1027/1024: 1280 * width_mult = 1283.75 gives 1283, not 1284
C9_Witness ==
    /\ y.ran /\ y.ok
    /\ width_mult = 1027
    /\ last_channel = 1283
    /\ y.chans[20] = 1283
    /\ y.logits = 1000

\* ---------------------------------------------------------------- C10

\* The repeat counts of the whole table, summed
TotalRepeats == BlocksThrough(NumStages)

\* C10: the generated blocks number the sum of the repeat counts (16, in a
\* feature sequence of 20 entries), every block that is not the first of its
\* stage has stride 1, equal channels and a shortcut with its tap D, so at
\* least sum(repeat_count - 1) = 10 blocks carry a shortcut; at width
\* multiplier 1.0 no first block of a stage has one, so exactly 10 do.
C10_BlockCountAndShortcuts ==
    /\ \A j \in BlockPositions :
          RepOf(BlockNo(j)) > 0 =>
             /\ features[j].stride = 1
             /\ features[j].inp = features[j].oup
             /\ features[j].use_res_connect
             /\ features[j].skip_drop # << >>
    /\ pc = "done" =>
          /\ Cardinality(BlockPositions) = TotalRepeats
          /\ TotalRepeats = 16
          /\ Len(features) = 20
          /\ BlockPositions = 3..18
          /\ Cardinality(Shortcuts) >= TotalRepeats - NumStages
          /\ TotalRepeats - NumStages = 10
          /\ width_mult = WidthDen =>
                /\ Cardinality(Shortcuts) = 10
                /\ \A j \in BlockPositions :
                      RepOf(BlockNo(j)) = 0 => ~features[j].use_res_connect

C10_Witness ==
    /\ pc = "done"
    /\ width_mult = WidthDen
    /\ Len(features) = 20
    /\ Cardinality(Shortcuts) = 10

====
